---- MODULE Spec2Model ----
(***************************************************************************)
(* Todo-list REST API: registration and login (controllers/authController, *)
(* models/User), the JWT authorization gate (middleware/authMiddleware),   *)
(* and the list and todo controllers over their SQL models.                *)
(*                                                                         *)
(* The relational store is a set of rows per table.  Every request handler *)
(* is one action, except register, which is split at its await points.     *)
(* The variables req and res hold the HTTP exchange completed by the last  *)
(* step (NoReq / NoRes when the step completed none).                      *)
(***************************************************************************)
EXTENDS Integers, Sequences, FiniteSets, TLC

\* ------------------------------------------------------------------ bounds
MaxTime   == 2      \* the clock runs over 0..MaxTime (seconds)
MaxRegs   == 2      \* register requests in flight or completed
MaxTokens == 2      \* tokens the clients hold on to
MaxLists  == 2      \* list ids handed out by AUTO_INCREMENT
MaxTodos  == 2      \* todo ids handed out by AUTO_INCREMENT
MaxSalt   == 1      \* distinct salts bcrypt may draw

\* ------------------------------------------------------- program constants
SaltRounds     == 10     \* bcrypt.hash(password, 10)
BcryptMaxBytes == 72     \* bcrypt reads at most 72 bytes of the password
FallbackSecret == "dsfsdfdsfsfdsf4332432432432432432"

\* ------------------------------------------------------------------ inputs
undefined == "undefined"          \* a JS value that is not there
Emails    == {"a@x", "b@x"}
Names     == {"n1", "n2"}
LongPw(c) == [i \in 1..(BcryptMaxBytes + 1) |-> IF i <= BcryptMaxBytes THEN 0 ELSE c]
Passwords == {<<1>>, LongPw(1), LongPw(2)}
Salts     == 1..MaxSalt
\* req.body.password when the field is missing: no byte string equals it
undefinedPassword == <<-1>>

\* process.env.JWT_SECRET: unset, empty or a configured string
SecretValues == {undefined, "", "s3cret"}
\* process.env.JWT_TTL is a string; a string is a sequence of characters
UnsetTTL  == <<undefined>>
TTLValues == {UnsetTTL, <<"2">>, <<"2", "0", "0", "0">>, <<"2", "s">>}

Min(a, b) == IF a <= b THEN a ELSE b

\* ------------------------------------------------------------ JS coercions
falsy(v) == v \in {undefined, ""}

Digits == {"0", "1", "2", "3", "4", "5", "6", "7", "8", "9"}
DigitVal(c) ==
    CASE c = "0" -> 0 [] c = "1" -> 1 [] c = "2" -> 2 [] c = "3" -> 3
      [] c = "4" -> 4 [] c = "5" -> 5 [] c = "6" -> 6 [] c = "7" -> 7
      [] c = "8" -> 8 [] c = "9" -> 9

RECURSIVE DigitPrefixLen(_)
DigitPrefixLen(s) ==
    IF s = <<>> \/ Head(s) \notin Digits THEN 0 ELSE 1 + DigitPrefixLen(Tail(s))

RECURSIVE DigitsToNat(_)
DigitsToNat(s) ==
    IF s = <<>> THEN 0 ELSE 10 * DigitsToNat(SubSeq(s, 1, Len(s) - 1)) + DigitVal(s[Len(s)])

\* NaN is its own value; a number is [nan |-> FALSE, n |-> value]
NaN    == [nan |-> TRUE, n |-> 0]
Num(n) == [nan |-> FALSE, n |-> n]

\* Number(str): the numeric value of a string of digits, NaN otherwise
\* ("" converts to 0, undefined to NaN)
ToNumber(s) ==
    IF s = UnsetTTL THEN NaN
    ELSE IF DigitPrefixLen(s) = Len(s) THEN Num(DigitsToNat(s))
    ELSE NaN

\* ms(str) of the `ms` package: digits with an optional unit, in
\* milliseconds; no unit means milliseconds; undefined when it does not parse
UnitMs(u) ==
    CASE u = <<>> -> 1
      [] u = <<"m", "s">> -> 1
      [] u = <<"s">> -> 1000
      [] u = <<"m">> -> 60000
      [] u = <<"h">> -> 3600000
      [] OTHER -> 0

ms(s) ==
    LET k == DigitPrefixLen(s)
        u == SubSeq(s, k + 1, Len(s))
    IN  IF k = 0 \/ UnitMs(u) = 0 THEN NaN
        ELSE Num(DigitsToNat(SubSeq(s, 1, k)) * UnitMs(u))

\* ---------------------------------------------------------------- bcrypt
truncate(pw) == SubSeq(pw, 1, Min(Len(pw), BcryptMaxBytes))

\* the digest embeds salt and cost; the one-way core is a function of the
\* salt, the cost and the first BcryptMaxBytes bytes of the password
bcrypt_digest(pw, salt, rounds) ==
    [salt |-> salt, rounds |-> rounds, key |-> truncate(pw)]

bcrypt_compare(pw, digest) ==
    bcrypt_digest(pw, digest.salt, digest.rounds) = digest

\* ------------------------------------------------------------ jsonwebtoken
NoPayload == [id |-> 0, email |-> "", iat |-> 0, exp |-> 0]
\* HMAC of a payload under a key: only the holder of the key can produce it
HMAC(payload, key) == [p |-> payload, k |-> key]
NoSig == HMAC(NoPayload, "")

\* pieces an Authorization header value is made of
Lit(text)         == [kind |-> "lit", text |-> text, payload |-> NoPayload, sig |-> NoSig]
Jwt(payload, sig) == [kind |-> "jwt", text |-> "", payload |-> payload, sig |-> sig]
Bearer == Lit("Bearer ")

\* timespan(time, iat) of jsonwebtoken: a string goes through ms() and is
\* taken as milliseconds
timespan(time, iat) ==
    IF ms(time).nan THEN NaN ELSE Num(iat + (ms(time).n \div 1000))

\* jwt.sign(payload, secret, {expiresIn}): throws unless expiresIn is a
\* non-empty string that ms() parses
jwt_sign_throws(expiresIn) ==
    expiresIn = UnsetTTL \/ expiresIn = <<>> \/ timespan(expiresIn, 0).nan

jwt_sign(claims, secret, expiresIn, clock) ==
    LET payload == [id |-> claims.id, email |-> claims.email, iat |-> clock,
                    exp |-> timespan(expiresIn, clock).n]
    IN  Jwt(payload, HMAC(payload, secret))

\* jwt.verify(token, secret) of jsonwebtoken 9: "" when the token verifies,
\* the error it throws otherwise.  The token string must be one well-formed
\* JWT, signed, the secret must be given, the signature must match and the
\* expiry must lie in the future.
jwt_verify(token, secret, clock) ==
    IF Len(token) # 1 \/ token[1].kind # "jwt" THEN "jwt malformed"
    ELSE IF token[1].sig = NoSig /\ ~falsy(secret) THEN "jwt signature is required"
    ELSE IF token[1].sig # NoSig /\ falsy(secret) THEN "secret or public key must be provided"
    ELSE IF token[1].sig = NoSig THEN "please specify none in algorithms"
    ELSE IF token[1].sig # HMAC(token[1].payload, secret) THEN "invalid signature"
    ELSE IF clock >= token[1].payload.exp THEN "jwt expired"
    ELSE ""

\* ---------------------------------------------------------- responseHelper
\* a message is a fixed text and what the code appends to it
Msg(text) == <<text, <<>>>>

successResponse(data, message) ==
    [status |-> 200, success |-> TRUE, message |-> message, data |-> data,
     error |-> "", keys |-> {"success", "data", "message"}]

\* variant: the failure is told in the body alone, the status stays 200
errorResponse_status200(message, status, error) ==
    [status |-> 200, success |-> FALSE, message |-> message, data |-> {},
     error |-> error, keys |-> {"success", "message", "error"}]

errorResponse(message, status, error) ==
    [status |-> status, success |-> FALSE, message |-> message, data |-> {},
     error |-> error, keys |-> {"success", "message", "error"}]

NoRes == [status |-> 0, success |-> FALSE, message |-> Msg(""), data |-> {},
          error |-> "", keys |-> {}]

\* ------------------------------------------------------------------- state
VARIABLES
    JWT_SECRET,   \* process.env.JWT_SECRET
    JWT_TTL,      \* process.env.JWT_TTL
    now,          \* wall clock, seconds
    users,        \* table users: rows [id, name, email, password]
    lists,        \* table lists: rows [id, name, user_id]
    nextListId,   \* AUTO_INCREMENT of lists
    todos,        \* table todos: rows [id, name, list_id, completed]
    nextTodoId,   \* AUTO_INCREMENT of todos
    reg,          \* the register requests, each at one of its await points
    issued,       \* tokens returned to clients
    req,          \* the request completed by the last step
    res           \* its response

vars == <<JWT_SECRET, JWT_TTL, now, users, lists, nextListId, todos,
          nextTodoId, reg, issued, req, res>>

env   == <<JWT_SECRET, JWT_TTL>>
store == <<users, lists, nextListId, todos, nextTodoId>>

Regs == 1..MaxRegs

NoHeader == [present |-> FALSE, value |-> <<>>]
Header(v) == [present |-> TRUE, value |-> v]

NoBody == [name |-> "", email |-> "", password |-> <<>>, listId |-> 0, completed |-> FALSE]

Req(op, header, id, body) ==
    [op |-> op, header |-> header, id |-> id, body |-> body,
     user |-> NoPayload, next |-> FALSE, handler |-> "none"]
NoReq == Req("none", NoHeader, 0, NoBody)

NewReg == [pc |-> "new", email |-> "", password |-> <<>>, name |-> "",
           hashedPassword |-> bcrypt_digest(<<>>, 0, 0), status |-> 0]

Init ==
    /\ JWT_SECRET \in SecretValues
    /\ JWT_TTL \in TTLValues
    /\ now = 0
    /\ users = {}
    /\ lists = {}
    /\ nextListId = 1
    /\ todos = {}
    /\ nextTodoId = 1
    /\ reg = [p \in Regs |-> NewReg]
    /\ issued = {}
    /\ req = NoReq
    /\ res = NoRes

\* =================================================================== User
\* SELECT * FROM users WHERE email = ?  -> rows
findByEmail(email) == {u \in users : u.email = email}

\* the id AUTO_INCREMENT gives the next users row
insertId == Cardinality(users) + 1

\* users.email is UNIQUE: the INSERT is refused when the email is stored
DuplicateEntry(email) == \E u \in users : u.email = email

\* ========================================================= authController
Quiet == req' = NoReq /\ res' = NoRes

\* variant: register without the test of the lookup's result
Register_findByEmail_noCheck(p, name, email, password) ==
    /\ reg[p].pc = "new"
    /\ reg' = [reg EXCEPT ![p] = [@ EXCEPT !.pc = "hash", !.email = email,
                   !.password = password, !.name = name]]
    /\ Quiet
    /\ UNCHANGED <<env, now, store, issued>>

\* register up to its first await: the lookup by email, 409 when found
Register_findByEmail(p, name, email, password) ==
    /\ reg[p].pc = "new"
    /\ LET existingUser == findByEmail(email)
           body == [NoBody EXCEPT !.name = name, !.email = email, !.password = password]
       IN  IF email = undefined
           \* db.execute throws on an undefined bind parameter
           THEN /\ reg' = [reg EXCEPT ![p] = [@ EXCEPT !.pc = "done", !.email = email,
                              !.password = password, !.name = name, !.status = 500]]
                /\ req' = Req("register", NoHeader, 0, body)
                /\ res' = errorResponse(Msg("Error registering user"), 500, "Bind parameters")
           ELSE IF existingUser # {}
           THEN /\ reg' = [reg EXCEPT ![p] = [@ EXCEPT !.pc = "done", !.email = email,
                              !.password = password, !.name = name, !.status = 409]]
                /\ req' = Req("register", NoHeader, 0, body)
                /\ res' = errorResponse(Msg("Email is already registered"), 409, "{}")
           ELSE /\ reg' = [reg EXCEPT ![p] = [@ EXCEPT !.pc = "hash", !.email = email,
                              !.password = password, !.name = name]]
                /\ Quiet
    /\ UNCHANGED <<env, now, store, issued>>

\* variant: User.create keeps the password as it came, unhashed (a digest
\* of zero rounds and no salt)
Register_hash_plain(p) ==
    /\ reg[p].pc = "hash"
    /\ reg' = [reg EXCEPT ![p] = [@ EXCEPT !.pc = "insert",
                   !.hashedPassword = [salt |-> 0, rounds |-> 0, key |-> reg[p].password]]]
    /\ Quiet
    /\ UNCHANGED <<env, now, store, issued>>

\* User.create up to its await: bcrypt.hash(password, 10) with a fresh salt
Register_hash(p) ==
    /\ reg[p].pc = "hash"
    /\ IF reg[p].password = undefinedPassword
       \* bcrypt.hash rejects what is not a string
       THEN LET r == reg[p]
            IN  /\ reg' = [reg EXCEPT ![p] = [@ EXCEPT !.pc = "done", !.status = 500]]
                /\ req' = Req("register", NoHeader, 0,
                              [NoBody EXCEPT !.name = r.name, !.email = r.email,
                                             !.password = r.password])
                /\ res' = errorResponse(Msg("Error registering user"), 500, "Illegal arguments")
       ELSE /\ \E salt \in Salts :
                  reg' = [reg EXCEPT ![p] = [@ EXCEPT !.pc = "insert",
                             !.hashedPassword = bcrypt_digest(reg[p].password, salt, SaltRounds)]]
            /\ Quiet
    /\ UNCHANGED <<env, now, store, issued>>

\* variant: the token names the id of the row before the one inserted
Register_insert_staleId(p) ==
    /\ reg[p].pc = "insert"
    /\ LET r == reg[p]
           body == [NoBody EXCEPT !.name = r.name, !.email = r.email, !.password = r.password]
           userId == insertId
           row == [id |-> userId, name |-> r.name, email |-> r.email,
                   password |-> r.hashedPassword]
           secret == IF falsy(JWT_SECRET) THEN FallbackSecret ELSE JWT_SECRET
           ttl == JWT_TTL
           token == jwt_sign([id |-> userId - 1, email |-> r.email], secret, ttl, now)
           expiryDate == IF ToNumber(ttl).nan THEN NaN ELSE Num(now + ToNumber(ttl).n)
       IN  /\ req' = Req("register", NoHeader, 0, body)
           /\ IF r.name = undefined
              \* db.execute throws on an undefined bind parameter
              THEN /\ res' = errorResponse(Msg("Error registering user"), 500, "Bind parameters")
                   /\ reg' = [reg EXCEPT ![p] = [@ EXCEPT !.pc = "done", !.status = 500]]
                   /\ UNCHANGED <<users, issued>>
              ELSE IF DuplicateEntry(r.email)
              THEN /\ res' = errorResponse(Msg("Error registering user"), 500, "ER_DUP_ENTRY")
                   /\ reg' = [reg EXCEPT ![p] = [@ EXCEPT !.pc = "done", !.status = 500]]
                   /\ UNCHANGED <<users, issued>>
              ELSE /\ users' = users \cup {row}
                   /\ IF jwt_sign_throws(ttl)
                      THEN /\ res' = errorResponse(Msg("Error registering user"), 500, "expiresIn")
                           /\ reg' = [reg EXCEPT ![p] = [@ EXCEPT !.pc = "done", !.status = 500]]
                           /\ UNCHANGED issued
                      ELSE /\ Cardinality(issued \cup {token}) <= MaxTokens
                           /\ res' = successResponse([token |-> token, expiresAt |-> expiryDate],
                                                     Msg("Request completed successfully"))
                           /\ reg' = [reg EXCEPT ![p] = [@ EXCEPT !.pc = "done", !.status = 200]]
                           /\ issued' = issued \cup {token}
    /\ UNCHANGED <<env, now, lists, nextListId, todos, nextTodoId>>

\* the INSERT, and what register does once it returns: sign and answer
Register_insert(p) ==
    /\ reg[p].pc = "insert"
    /\ LET r == reg[p]
           body == [NoBody EXCEPT !.name = r.name, !.email = r.email, !.password = r.password]
           userId == insertId
           row == [id |-> userId, name |-> r.name, email |-> r.email,
                   password |-> r.hashedPassword]
           secret == IF falsy(JWT_SECRET) THEN FallbackSecret ELSE JWT_SECRET
           ttl == JWT_TTL
           token == jwt_sign([id |-> userId, email |-> r.email], secret, ttl, now)
           expiryDate == IF ToNumber(ttl).nan THEN NaN ELSE Num(now + ToNumber(ttl).n)
       IN  /\ req' = Req("register", NoHeader, 0, body)
           /\ IF r.name = undefined
              \* db.execute throws on an undefined bind parameter
              THEN /\ res' = errorResponse(Msg("Error registering user"), 500, "Bind parameters")
                   /\ reg' = [reg EXCEPT ![p] = [@ EXCEPT !.pc = "done", !.status = 500]]
                   /\ UNCHANGED <<users, issued>>
              ELSE IF DuplicateEntry(r.email)
              THEN /\ res' = errorResponse(Msg("Error registering user"), 500, "ER_DUP_ENTRY")
                   /\ reg' = [reg EXCEPT ![p] = [@ EXCEPT !.pc = "done", !.status = 500]]
                   /\ UNCHANGED <<users, issued>>
              ELSE /\ users' = users \cup {row}
                   /\ IF jwt_sign_throws(ttl)
                      THEN /\ res' = errorResponse(Msg("Error registering user"), 500, "expiresIn")
                           /\ reg' = [reg EXCEPT ![p] = [@ EXCEPT !.pc = "done", !.status = 500]]
                           /\ UNCHANGED issued
                      ELSE /\ Cardinality(issued \cup {token}) <= MaxTokens
                           /\ res' = successResponse([token |-> token, expiresAt |-> expiryDate],
                                                     Msg("Request completed successfully"))
                           /\ reg' = [reg EXCEPT ![p] = [@ EXCEPT !.pc = "done", !.status = 200]]
                           /\ issued' = issued \cup {token}
    /\ UNCHANGED <<env, now, lists, nextListId, todos, nextTodoId>>

\* A request without a JSON body: express.json() of Express 4 sets req.body
\* to {} (every field is missing), that of Express 5 leaves it undefined.
\* register with req.body undefined: the destructuring throws inside the
\* try and the catch answers 500
Register_noBody(p) ==
    /\ reg[p].pc = "new"
    /\ reg' = [reg EXCEPT ![p] = [@ EXCEPT !.pc = "done", !.name = undefined,
                   !.email = undefined, !.password = undefinedPassword, !.status = 500]]
    /\ req' = Req("register", NoHeader, 0, NoBody)
    /\ res' = errorResponse(Msg("Error registering user"), 500, "TypeError")
    /\ UNCHANGED <<env, now, store, issued>>

\* login with req.body undefined: the destructuring stands before the try,
\* the async handler rejects and sends no response
Login_noBody ==
    /\ req' = [Req("login", NoHeader, 0, NoBody) EXCEPT !.handler = "login"]
    /\ res' = NoRes
    /\ UNCHANGED <<env, now, store, reg, issued>>

\* variant: login tells an unknown email from a wrong password
Login_tellsUnknownEmail(email, password) ==
    LET rows == findByEmail(email)
        body == [NoBody EXCEPT !.email = email, !.password = password]
    IN  /\ req' = Req("login", NoHeader, 0, body)
        /\ res' = IF rows = {}
                  THEN errorResponse(Msg("User not found"), 404, "{}")
                  ELSE errorResponse(Msg("Invalid email or password"), 401, "{}")
        /\ UNCHANGED <<env, now, store, reg, issued>>

\* login: lookup, bcrypt.compare, sign
Login(email, password) ==
    LET rows == findByEmail(email)
        body == [NoBody EXCEPT !.email = email, !.password = password]
        secret == IF falsy(JWT_SECRET) THEN FallbackSecret ELSE JWT_SECRET
        ttl == JWT_TTL
    IN  /\ req' = Req("login", NoHeader, 0, body)
        /\ IF email = undefined
           \* db.execute throws on an undefined bind parameter
           THEN /\ res' = errorResponse(Msg("Error logging in user"), 500, "Bind parameters")
                /\ UNCHANGED issued
           ELSE IF rows = {}
           THEN /\ res' = errorResponse(Msg("Invalid email or password"), 401, "{}")
                /\ UNCHANGED issued
           ELSE LET user == CHOOSE u \in rows : TRUE
                    token == jwt_sign([id |-> user.id, email |-> user.email], secret, ttl, now)
                    expiryDate == IF ToNumber(ttl).nan THEN NaN ELSE Num(now + ToNumber(ttl).n)
                IN  IF password = undefinedPassword
                    \* bcrypt.compare rejects what is not a string
                    THEN /\ res' = errorResponse(Msg("Error logging in user"), 500, "Illegal arguments")
                         /\ UNCHANGED issued
                    ELSE IF ~bcrypt_compare(password, user.password)
                    THEN /\ res' = errorResponse(Msg("Invalid email or password"), 401, "{}")
                         /\ UNCHANGED issued
                    ELSE IF jwt_sign_throws(ttl)
                    THEN /\ res' = errorResponse(Msg("Error logging in user"), 500, "expiresIn")
                         /\ UNCHANGED issued
                    ELSE /\ Cardinality(issued \cup {token}) <= MaxTokens
                         /\ res' = successResponse([token |-> token, expiresAt |-> expiryDate],
                                                   Msg("Request completed successfully"))
                         /\ issued' = issued \cup {token}
        /\ UNCHANGED <<env, now, store, reg>>

\* the wall clock advances
Tick ==
    /\ now < MaxTime
    /\ now' = now + 1
    /\ Quiet
    /\ UNCHANGED <<env, store, reg, issued>>

\* ========================================================= authMiddleware
\* String.prototype.replace(what, ''): drops the first occurrence of what
RECURSIVE replace(_, _)
replace(s, what) ==
    IF s = <<>> THEN <<>>
    ELSE IF Head(s) = what THEN Tail(s)
    ELSE <<Head(s)>> \o replace(Tail(s), what)

\* variant: the gate without its check for a missing token
authMiddleware_noTokenCheck(header) ==
    LET token == IF header.present THEN replace(header.value, Bearer) ELSE <<>>
        error == jwt_verify(token, JWT_SECRET, now)
    IN  IF error = ""
        THEN [next |-> TRUE, user |-> token[1].payload, res |-> NoRes]
        ELSE [next |-> FALSE, user |-> NoPayload,
              res |-> errorResponse(<<"Invalid token, TTL:", JWT_TTL>>, 401, error)]

\* variant: the gate decodes the token where it should verify it, and goes
\* on whenever the token is a well-formed JWT
authMiddleware_decodeOnly(header) ==
    LET token == IF header.present THEN replace(header.value, Bearer) ELSE <<>>
    IN  IF ~header.present \/ token = <<>>
        THEN [next |-> FALSE, user |-> NoPayload,
              res |-> errorResponse(Msg("Unauthorized"), 401, "{}")]
        ELSE IF Len(token) = 1 /\ token[1].kind = "jwt"
        THEN [next |-> TRUE, user |-> token[1].payload, res |-> NoRes]
        ELSE [next |-> FALSE, user |-> NoPayload,
              res |-> errorResponse(<<"Invalid token, TTL:", JWT_TTL>>, 401, "jwt malformed")]

\* variant: the gate keeps one session per user and turns down a token
\* once a later one was issued for the same id
authMiddleware_latestOnly(header) ==
    LET token == IF header.present THEN replace(header.value, Bearer) ELSE <<>>
        error == jwt_verify(token, JWT_SECRET, now)
    IN  IF ~header.present \/ token = <<>>
        THEN [next |-> FALSE, user |-> NoPayload,
              res |-> errorResponse(Msg("Unauthorized"), 401, "{}")]
        ELSE IF error = "" /\ \E t \in issued : /\ t.payload.id = token[1].payload.id
                                                 /\ t.payload.iat > token[1].payload.iat
        THEN [next |-> FALSE, user |-> NoPayload,
              res |-> errorResponse(Msg("Unauthorized"), 401, "{}")]
        ELSE IF error = ""
        THEN [next |-> TRUE, user |-> token[1].payload, res |-> NoRes]
        ELSE [next |-> FALSE, user |-> NoPayload,
              res |-> errorResponse(<<"Invalid token, TTL:", JWT_TTL>>, 401, error)]

\* the gate: [next, user, res]; res is the 401 it sends when it does not
\* call next()
authMiddleware(header) ==
    LET token == IF header.present THEN replace(header.value, Bearer) ELSE <<>>
        error == jwt_verify(token, JWT_SECRET, now)
    IN  IF ~header.present \/ token = <<>>
        THEN [next |-> FALSE, user |-> NoPayload,
              res |-> errorResponse(Msg("Unauthorized"), 401, "{}")]
        ELSE IF error = ""
        THEN [next |-> TRUE, user |-> token[1].payload, res |-> NoRes]
        ELSE [next |-> FALSE, user |-> NoPayload,
              res |-> errorResponse(<<"Invalid token, TTL:", JWT_TTL>>, 401, error)]

\* variant: the identity the handler sees takes its id from the path
Gated_pathId(op, header, id, body) ==
    LET g == authMiddleware(header)
    IN  [Req(op, header, id, body) EXCEPT !.user = [g.user EXCEPT !.id = id],
                                          !.next = g.next,
                                          !.handler = IF g.next THEN op ELSE "none"]

\* the request as the route handler sees it after the gate
Gated(op, header, id, body) ==
    LET g == authMiddleware(header)
    IN  [Req(op, header, id, body) EXCEPT !.user = g.user, !.next = g.next,
                                          !.handler = IF g.next THEN op ELSE "none"]

\* =================================================================== List
\* variant: the SELECT without its WHERE
findAllByUserId_all(userId) == lists

\* SELECT * FROM lists WHERE user_id = ?
findAllByUserId(userId) == {l \in lists : l.user_id = userId}

\* variant: the lookup by id forgets the owner
List_getListById_anyOwner(id, userId) == {l \in lists : l.id = id}

\* SELECT * FROM lists WHERE id=? AND user_id = ?
List_getListById(id, userId) == {l \in lists : l.id = id /\ l.user_id = userId}

\* variant: the update forgets the owner
List_update_anyOwner(name, id, userId) == {l \in lists : l.id = id}

\* UPDATE lists SET name=? WHERE id=? AND user_id=?  -> the rows it matches
List_update(name, id, userId) == {l \in lists : l.id = id /\ l.user_id = userId}

\* DELETE FROM lists WHERE id=? AND user_id=?  -> the rows it matches
List_remove(id, userId) == {l \in lists : l.id = id /\ l.user_id = userId}

\* the schema gives todos(id, name, list_id, completed, ...) with no reference
\* from list_id to lists(id): the todos rows a DELETE of lists rows takes along
ReferencingTodos(matched) == {}

\* ========================================================= listController
getUserLists(header) ==
    LET r == Gated("getUserLists", header, 0, NoBody)
        userId == r.user.id
    IN  /\ req' = r
        /\ res' = IF ~r.next THEN authMiddleware(header).res
                  ELSE successResponse(findAllByUserId(userId), Msg("Lists fetched successfully"))
        /\ UNCHANGED <<env, now, store, reg, issued>>

\* variant: the controller tells a list of another user from a missing one
getListById_forbidden(header, id) ==
    LET r == Gated("getListById", header, id, NoBody)
        userId == r.user.id
        list == List_getListById(id, userId)
    IN  /\ req' = r
        /\ res' = IF ~r.next THEN authMiddleware(header).res
                  ELSE IF list = {} /\ \E l \in lists : l.id = id
                  THEN errorResponse(Msg("Forbidden"), 403, "{}")
                  ELSE IF list = {} THEN errorResponse(Msg("List not found"), 404, "{}")
                  ELSE successResponse(CHOOSE l \in list : TRUE, Msg("List fetched successfully"))
        /\ UNCHANGED <<env, now, store, reg, issued>>

getListById(header, id) ==
    LET r == Gated("getListById", header, id, NoBody)
        userId == r.user.id
        list == List_getListById(id, userId)
    IN  /\ req' = r
        /\ res' = IF ~r.next THEN authMiddleware(header).res
                  ELSE IF list = {} THEN errorResponse(Msg("List not found"), 404, "{}")
                  ELSE successResponse(CHOOSE l \in list : TRUE, Msg("List fetched successfully"))
        /\ UNCHANGED <<env, now, store, reg, issued>>

\* variant: the owner of the new list is read from the request body
createList_bodyOwner(header, name) ==
    LET r == Gated("createList", header, 0, [NoBody EXCEPT !.name = name])
        userId == r.body.listId
        listId == nextListId
    IN  /\ r.next => nextListId <= MaxLists
        /\ req' = r
        /\ IF ~r.next
           THEN /\ res' = authMiddleware(header).res
                /\ UNCHANGED <<lists, nextListId>>
           ELSE /\ lists' = lists \cup {[id |-> listId, name |-> name, user_id |-> userId]}
                /\ nextListId' = nextListId + 1
                /\ res' = successResponse([id |-> listId, name |-> name],
                                          Msg("List created successfully"))
        /\ UNCHANGED <<env, now, users, todos, nextTodoId, reg, issued>>

createList(header, name) ==
    LET r == Gated("createList", header, 0, [NoBody EXCEPT !.name = name])
        userId == r.user.id
        listId == nextListId
    IN  /\ r.next => nextListId <= MaxLists
        /\ req' = r
        /\ IF ~r.next
           THEN /\ res' = authMiddleware(header).res
                /\ UNCHANGED <<lists, nextListId>>
           ELSE /\ lists' = lists \cup {[id |-> listId, name |-> name, user_id |-> userId]}
                /\ nextListId' = nextListId + 1
                /\ res' = successResponse([id |-> listId, name |-> name],
                                          Msg("List created successfully"))
        /\ UNCHANGED <<env, now, users, todos, nextTodoId, reg, issued>>

\* variant: the update matches the id alone and hands the list to the caller
updateList_takeOver(header, id, name) ==
    LET r == Gated("updateList", header, id, [NoBody EXCEPT !.name = name])
        userId == r.user.id
        matched == {l \in lists : l.id = id}
        affectedRows == Cardinality(matched)
    IN  /\ req' = r
        /\ IF ~r.next
           THEN /\ res' = authMiddleware(header).res
                /\ UNCHANGED lists
           ELSE /\ lists' = (lists \ matched) \cup
                                {[l EXCEPT !.name = name, !.user_id = userId] : l \in matched}
                /\ res' = IF affectedRows # 0
                          THEN successResponse([id |-> id, name |-> name],
                                               Msg("List updated successfully"))
                          ELSE errorResponse(Msg("List not found or update failed"), 404, "{}")
        /\ UNCHANGED <<env, now, users, nextListId, todos, nextTodoId, reg, issued>>

updateList(header, id, name) ==
    LET r == Gated("updateList", header, id, [NoBody EXCEPT !.name = name])
        userId == r.user.id
        matched == List_update(name, id, userId)
        affectedRows == Cardinality(matched)
    IN  /\ req' = r
        /\ IF ~r.next
           THEN /\ res' = authMiddleware(header).res
                /\ UNCHANGED lists
           ELSE /\ lists' = (lists \ matched) \cup {[l EXCEPT !.name = name] : l \in matched}
                /\ res' = IF affectedRows # 0
                          THEN successResponse([id |-> id, name |-> name],
                                               Msg("List updated successfully"))
                          ELSE errorResponse(Msg("List not found or update failed"), 404, "{}")
        /\ UNCHANGED <<env, now, users, nextListId, todos, nextTodoId, reg, issued>>

deleteList(header, id) ==
    LET r == Gated("deleteList", header, id, NoBody)
        userId == r.user.id
        matched == List_remove(id, userId)
        affectedRows == Cardinality(matched)
    IN  /\ req' = r
        /\ IF ~r.next
           THEN /\ res' = authMiddleware(header).res
                /\ UNCHANGED lists
           ELSE /\ lists' = lists \ matched
                /\ res' = IF affectedRows # 0
                          THEN successResponse("null", Msg("List deleted successfully"))
                          ELSE errorResponse(Msg("List not found or deletion failed"), 404, "{}")
        /\ todos' = IF r.next THEN todos \ ReferencingTodos(matched) ELSE todos
        /\ UNCHANGED <<env, now, users, nextListId, nextTodoId, reg, issued>>

\* =================================================================== Todo
\* SELECT * FROM todos WHERE list_id = ?
findAllByListId(listId) == {t \in todos : t.list_id = listId}

\* SELECT * FROM todos WHERE id = ?
Todo_getTodoById(id) == {t \in todos : t.id = id}

\* UPDATE todos SET name, completed, list_id WHERE id = ?  -> the rows it matches
Todo_update(id) == {t \in todos : t.id = id}

\* DELETE FROM todos WHERE id = ?  -> the rows it matches
Todo_remove(id) == {t \in todos : t.id = id}

\* ========================================================= todoController
getTodos(header, listId) ==
    LET r == Gated("getTodos", header, 0, [NoBody EXCEPT !.listId = listId])
    IN  /\ req' = r
        /\ res' = IF ~r.next THEN authMiddleware(header).res
                  ELSE successResponse(findAllByListId(listId), Msg("Todos fetched successfully"))
        /\ UNCHANGED <<env, now, store, reg, issued>>

getTodoById(header, id) ==
    LET r == Gated("getTodoById", header, id, NoBody)
        todo == Todo_getTodoById(id)
    IN  /\ req' = r
        /\ res' = IF ~r.next THEN authMiddleware(header).res
                  ELSE IF todo = {} THEN errorResponse(Msg("Todo not found"), 404, "{}")
                  ELSE successResponse(CHOOSE t \in todo : TRUE, Msg("Todo fetched successfully"))
        /\ UNCHANGED <<env, now, store, reg, issued>>

createTodo(header, name, listId, completed) ==
    LET r == Gated("createTodo", header, 0,
                   [NoBody EXCEPT !.name = name, !.listId = listId, !.completed = completed])
        todoId == nextTodoId
    IN  /\ r.next => nextTodoId <= MaxTodos
        /\ req' = r
        /\ IF ~r.next
           THEN /\ res' = authMiddleware(header).res
                /\ UNCHANGED <<todos, nextTodoId>>
           ELSE /\ todos' = todos \cup {[id |-> todoId, name |-> name, list_id |-> listId,
                                         completed |-> completed]}
                /\ nextTodoId' = nextTodoId + 1
                /\ res' = successResponse([id |-> todoId, name |-> name, listId |-> listId,
                                           completed |-> completed],
                                          Msg("Todo created successfully"))
        /\ UNCHANGED <<env, now, users, lists, nextListId, reg, issued>>

updateTodo(header, id, name, completed, listId) ==
    LET r == Gated("updateTodo", header, id,
                   [NoBody EXCEPT !.name = name, !.listId = listId, !.completed = completed])
        matched == Todo_update(id)
        affectedRows == Cardinality(matched)
    IN  /\ req' = r
        /\ IF ~r.next
           THEN /\ res' = authMiddleware(header).res
                /\ UNCHANGED todos
           ELSE /\ todos' = (todos \ matched) \cup
                                {[t EXCEPT !.name = name, !.completed = completed,
                                           !.list_id = listId] : t \in matched}
                /\ res' = IF affectedRows # 0
                          THEN successResponse([id |-> id, name |-> name, completed |-> completed,
                                                listId |-> listId],
                                               Msg("Todo updated successfully"))
                          ELSE errorResponse(Msg("Todo not found or update failed"), 404, "{}")
        /\ UNCHANGED <<env, now, users, lists, nextListId, nextTodoId, reg, issued>>

\* variant: the delete looks up the owner of the todo's list
deleteTodo_ownerOnly(header, id) ==
    LET r == Gated("deleteTodo", header, id, NoBody)
        matched == {t \in Todo_remove(id) :
                       \E l \in lists : l.id = t.list_id /\ l.user_id = r.user.id}
        affectedRows == Cardinality(matched)
    IN  /\ req' = r
        /\ IF ~r.next
           THEN /\ res' = authMiddleware(header).res
                /\ UNCHANGED todos
           ELSE /\ todos' = todos \ matched
                /\ res' = IF affectedRows # 0
                          THEN successResponse("null", Msg("Todo deleted successfully"))
                          ELSE errorResponse(Msg("Todo not found or deletion failed"), 404, "{}")
        /\ UNCHANGED <<env, now, users, lists, nextListId, nextTodoId, reg, issued>>

deleteTodo(header, id) ==
    LET r == Gated("deleteTodo", header, id, NoBody)
        matched == Todo_remove(id)
        affectedRows == Cardinality(matched)
    IN  /\ req' = r
        /\ IF ~r.next
           THEN /\ res' = authMiddleware(header).res
                /\ UNCHANGED todos
           ELSE /\ todos' = todos \ matched
                /\ res' = IF affectedRows # 0
                          THEN successResponse("null", Msg("Todo deleted successfully"))
                          ELSE errorResponse(Msg("Todo not found or deletion failed"), 404, "{}")
        /\ UNCHANGED <<env, now, users, lists, nextListId, nextTodoId, reg, issued>>

\* ================================================================ requests
ListIds == 1..MaxLists
TodoIds == 1..MaxTodos

\* what a client that was handed the token t may send
BearerOf(t) == Header(<<Bearer, t>>)

\* tokens made without the server's secret: a payload of the maker's
\* choosing, unsigned, signed with a key of their own or with the fallback
\* published in the source, or carrying the signature of an issued token
CraftedPayload == [id |-> 1, email |-> "a@x", iat |-> 0, exp |-> MaxTime + 1]
Crafted ==
    {Jwt(CraftedPayload, NoSig)}
        \cup {Jwt(CraftedPayload, HMAC(CraftedPayload, k)) : k \in {"attacker", FallbackSecret}}
        \cup {Jwt([t.payload EXCEPT !.exp = MaxTime + 1], t.sig) : t \in issued}
        \cup {Jwt(t.payload, NoSig) : t \in issued}

\* every Authorization header the gate is tried with
GateHeaders ==
    {NoHeader, Header(<<>>), Header(<<Bearer>>), Header(<<Lit("Basic abc")>>)}
        \cup {BearerOf(t) : t \in issued \cup Crafted}
        \cup {Header(<<t>>) : t \in issued}
        \cup {Header(<<t, Bearer>>) : t \in issued}
        \cup {Header(<<Lit("x"), Bearer, t>>) : t \in issued}

\* the headers of clients that present what they were given, or nothing
TokenHeaders  == {BearerOf(t) : t \in issued}
ClientHeaders == {NoHeader} \cup TokenHeaders

\* -------------------------------------------- registration and login alone
RegisterStep ==
    \E p \in Regs :
        \/ \E email \in Emails, password \in {<<1>>, LongPw(1)} :
               Register_findByEmail(p, "n1", email, password)
        \/ Register_hash(p)
        \/ Register_insert(p)

LoginStep == \E email \in Emails, password \in Passwords : Login(email, password)

InitAuth ==
    /\ Init
    /\ JWT_SECRET = "s3cret"
    /\ JWT_TTL \in {UnsetTTL, <<"2", "0", "0", "0">>}

NextAuth == RegisterStep \/ LoginStep

SpecAuth == InitAuth /\ [][NextAuth]_vars

\* ------------------------------------------------ the gate under every env
\* one client registers, logs in and presents tokens
GateRegisterStep ==
    \/ Register_findByEmail(1, "n1", "a@x", <<1>>)
    \/ Register_hash(1)
    \/ Register_insert(1)

GateLoginStep == Login("a@x", <<1>>)

GateRequest == \E header \in GateHeaders : getUserLists(header)

NextGate == GateRegisterStep \/ GateLoginStep \/ Tick \/ GateRequest

SpecGate == Init /\ [][NextGate]_vars

\* ----------------------------------------- lists and todos of two users
\* the state right after a@x and then b@x registered at time 0 under an env
\* with a secret and a TTL (a state SpecAuth reaches)
StoreTTL == <<"2", "0", "0", "0">>
StoreUser(i, email) ==
    [id |-> i, name |-> "n1", email |-> email,
     password |-> bcrypt_digest(<<1>>, 1, SaltRounds)]
StoreToken(i, email) == jwt_sign([id |-> i, email |-> email], "s3cret", StoreTTL, 0)

InitStore ==
    /\ JWT_SECRET = "s3cret"
    /\ JWT_TTL = StoreTTL
    /\ now = 0
    /\ users = {StoreUser(1, "a@x"), StoreUser(2, "b@x")}
    /\ lists = {}
    /\ nextListId = 1
    /\ todos = {}
    /\ nextTodoId = 1
    /\ reg = [p \in Regs |->
                IF p > 2 THEN NewReg
                ELSE [NewReg EXCEPT !.pc = "done", !.status = 200,
                                    !.name = "n1", !.password = <<1>>,
                                    !.email = IF p = 1 THEN "a@x" ELSE "b@x",
                                    !.hashedPassword = bcrypt_digest(<<1>>, 1, SaltRounds)]]
    /\ issued = {StoreToken(1, "a@x"), StoreToken(2, "b@x")}
    /\ req = Req("register", NoHeader, 0,
                 [NoBody EXCEPT !.name = "n1", !.email = "b@x", !.password = <<1>>])
    /\ res = successResponse([token |-> StoreToken(2, "b@x"),
                              expiresAt |-> Num(ToNumber(StoreTTL).n)],
                             Msg("Request completed successfully"))

ListRequest ==
    \E header \in ClientHeaders :
        \/ getUserLists(header)
        \/ \E id \in ListIds : getListById(header, id)
        \/ \E name \in Names : createList(header, name)
        \/ \E id \in ListIds, name \in Names : updateList(header, id, name)
        \/ \E id \in ListIds : deleteList(header, id)

\* the todo routes, hit by a client without a token
AnonymousTodoRequest ==
    \/ \E listId \in ListIds : getTodos(NoHeader, listId)
    \/ \E id \in TodoIds : getTodoById(NoHeader, id)
    \/ \E listId \in ListIds : createTodo(NoHeader, "n1", listId, FALSE)
    \/ \E id \in TodoIds, listId \in ListIds :
           updateTodo(NoHeader, id, "n1", TRUE, listId)
    \/ \E id \in TodoIds : deleteTodo(NoHeader, id)

NextLists == ListRequest \/ AnonymousTodoRequest

SpecLists == InitStore /\ [][NextLists]_vars

\* the state right after a@x and then b@x each created one list (a state
\* SpecLists reaches)
InitTodos ==
    /\ JWT_SECRET = "s3cret"
    /\ JWT_TTL = StoreTTL
    /\ now = 0
    /\ users = {StoreUser(1, "a@x"), StoreUser(2, "b@x")}
    /\ lists = {[id |-> 1, name |-> "n1", user_id |-> 1],
                [id |-> 2, name |-> "n1", user_id |-> 2]}
    /\ nextListId = 3
    /\ todos = {}
    /\ nextTodoId = 1
    /\ reg = [p \in Regs |->
                IF p > 2 THEN NewReg
                ELSE [NewReg EXCEPT !.pc = "done", !.status = 200,
                                    !.name = "n1", !.password = <<1>>,
                                    !.email = IF p = 1 THEN "a@x" ELSE "b@x",
                                    !.hashedPassword = bcrypt_digest(<<1>>, 1, SaltRounds)]]
    /\ issued = {StoreToken(1, "a@x"), StoreToken(2, "b@x")}
    /\ req = LET t == StoreToken(2, "b@x")
                 r == Req("createList", BearerOf(t), 0, [NoBody EXCEPT !.name = "n1"])
             IN  [r EXCEPT !.user = t.payload, !.next = TRUE, !.handler = "createList"]
    /\ res = successResponse([id |-> 2, name |-> "n1"], Msg("List created successfully"))

\* the lists the todos hang under go away
TodoListStep ==
    \E header \in TokenHeaders, id \in ListIds : deleteList(header, id)

TodoRequest ==
    \E header \in TokenHeaders :
        \/ \E listId \in ListIds : getTodos(header, listId)
        \/ \E id \in TodoIds : getTodoById(header, id)
        \/ \E listId \in ListIds : createTodo(header, "n1", listId, FALSE)
        \/ \E id \in TodoIds, listId \in ListIds, completed \in BOOLEAN :
               updateTodo(header, id, "n1", completed, listId)
        \/ \E id \in TodoIds : deleteTodo(header, id)

NextTodos == TodoListStep \/ TodoRequest

SpecTodos == InitTodos /\ [][NextTodos]_vars

\* ------------------------------------ every route, well-formed or not
\* a@x registers, the first request with a full body, the later ones with
\* or without each body field; logins with and without body fields; b@x
\* sends list and todo requests with its token, without one and with a
\* header that is no Bearer token.  The store starts empty or with both
\* users registered.
RegisterBodies(p) ==
    IF p = 1 THEN {<<"n1", "a@x", <<1>>>>}
    ELSE {<<"n1", "a@x", <<1>>>>, <<undefined, "a@x", <<1>>>>,
          <<"n1", undefined, <<1>>>>, <<"n1", "a@x", undefinedPassword>>}

ApiRegisterStep ==
    \E p \in Regs :
        \/ \E body \in RegisterBodies(p) :
               Register_findByEmail(p, body[1], body[2], body[3])
        \/ p > 1 /\ Register_noBody(p)
        \/ Register_hash(p)
        \/ Register_insert(p)

ApiLoginStep ==
    \/ \E email \in {"a@x", "b@x", undefined}, password \in {<<1>>, LongPw(1), undefinedPassword} :
           Login(email, password)
    \/ Login_noBody

ApiHeaders ==
    {NoHeader, Header(<<Lit("Basic abc")>>)}
        \cup {BearerOf(t) : t \in {i \in issued : i.payload.email = "b@x"}}

ApiRequest ==
    \E header \in ApiHeaders :
        \/ getUserLists(header)
        \/ getListById(header, 1)
        \/ createList(header, "n1")
        \/ updateList(header, 1, "n2")
        \/ deleteList(header, 1)
        \/ getTodos(header, 1)
        \/ getTodoById(header, 1)
        \/ createTodo(header, "n1", 1, FALSE)
        \/ updateTodo(header, 1, "n2", TRUE, 1)
        \/ deleteTodo(header, 1)

NextApi == ApiRegisterStep \/ ApiLoginStep \/ ApiRequest

InitApi == InitAuth \/ InitStore

SpecApi == InitApi /\ [][NextApi]_vars

\* ------------------------------------------ a token over its lifetime
\* the state right after a@x registered at time 0, under each secret (a
\* state SpecGate reaches); then the clock runs, b@x registers, a@x logs in
\* again, and the holders of tokens change lists and todos
SessionToken ==
    jwt_sign([id |-> 1, email |-> "a@x"],
             IF falsy(JWT_SECRET) THEN FallbackSecret ELSE JWT_SECRET, StoreTTL, 0)

InitSession ==
    /\ JWT_SECRET \in SecretValues
    /\ JWT_TTL = StoreTTL
    /\ now = 0
    /\ users = {StoreUser(1, "a@x")}
    /\ lists = {}
    /\ nextListId = 1
    /\ todos = {}
    /\ nextTodoId = 1
    /\ reg = [p \in Regs |->
                IF p > 1 THEN NewReg
                ELSE [NewReg EXCEPT !.pc = "done", !.status = 200,
                                    !.name = "n1", !.password = <<1>>, !.email = "a@x",
                                    !.hashedPassword = bcrypt_digest(<<1>>, 1, SaltRounds)]]
    /\ issued = {SessionToken}
    /\ req = Req("register", NoHeader, 0,
                 [NoBody EXCEPT !.name = "n1", !.email = "a@x", !.password = <<1>>])
    /\ res = successResponse([token |-> SessionToken,
                              expiresAt |-> Num(ToNumber(StoreTTL).n)],
                             Msg("Request completed successfully"))

SessionRegisterStep ==
    \/ Register_findByEmail(2, "n1", "b@x", <<1>>)
    \/ Register_hash(2)
    \/ Register_insert(2)

SessionLoginStep == Login("a@x", <<1>>)

SessionRequest ==
    \E header \in TokenHeaders :
        \/ getUserLists(header)
        \/ createList(header, "n1")
        \/ deleteList(header, 1)
        \/ createTodo(header, "n1", 1, FALSE)
        \/ deleteTodo(header, 1)

NextSession == Tick \/ SessionRegisterStep \/ SessionLoginStep \/ SessionRequest

SpecSession == InitSession /\ [][NextSession]_vars

\* ------------------------------------------------------- the whole system
Next ==
    \/ RegisterStep \/ LoginStep \/ Tick \/ GateRequest
    \/ ListRequest \/ AnonymousTodoRequest \/ TodoRequest

Spec == Init /\ [][Next]_vars

\* ================================================================== claims
ListOps == {"getUserLists", "getListById", "createList", "updateList", "deleteList"}
TodoOps == {"getTodos", "getTodoById", "createTodo", "updateTodo", "deleteTodo"}

\* the list with this id exists and belongs to somebody other than uid
Foreign(listId, uid) == \E l \in lists : l.id = listId /\ l.user_id # uid

\* C1: read isolation for lists.  What GET /lists returns to a caller are
\* rows the caller owns, and GET /lists/:id on a list of another user
\* finds no row and is answered 404 'List not found'.
C1_ListReadIsolation ==
    /\ (req.op = "getUserLists" /\ req.next) =>
          /\ res.status = 200
          /\ \A l \in res.data : l.user_id = req.user.id
          /\ \A l \in lists : l.user_id # req.user.id => l \notin res.data
    /\ (req.op = "getListById" /\ req.next /\ Foreign(req.id, req.user.id)) =>
          /\ res.status = 404
          /\ res.message = Msg("List not found")
    /\ (req.op = "getListById" /\ req.next /\ res.status = 200) =>
          res.data.user_id = req.user.id

C1_Witness ==
    /\ req.op = "getListById" /\ req.next
    /\ Foreign(req.id, req.user.id)
    /\ res.status = 404

\* C2: write isolation for lists.  An update or delete aimed at a list of
\* another user changes no row and is answered 404; a list changes or
\* disappears only in an update or delete of its owner on its id.
C2_ListWriteIsolation ==
    [][ /\ (req'.op \in {"updateList", "deleteList"} /\ req'.next
            /\ Foreign(req'.id, req'.user.id)) =>
              (lists' = lists /\ res'.status = 404)
        /\ \A l \in lists : l \notin lists' =>
              /\ req'.op \in {"updateList", "deleteList"}
              /\ req'.next
              /\ req'.user.id = l.user_id
              /\ req'.id = l.id ]_vars

C2_Witness ==
    /\ req.op \in {"updateList", "deleteList"} /\ req.next
    /\ Foreign(req.id, req.user.id)
    /\ res.status = 404

\* C3: tenant isolation for todos, as claimed: a caller never reads,
\* creates under, updates or deletes a todo of a list of another user.
C3_TodoIsolation ==
    [][ (req'.op \in TodoOps /\ req'.next) =>
          LET caller == req'.user.id
              target == {t \in todos : t.id = req'.id}
          IN  /\ (req'.op \in {"getTodos", "createTodo"}
                    /\ Foreign(req'.body.listId, caller)) =>
                      (res'.status # 200 /\ todos' = todos)
              /\ (req'.op \in {"getTodoById", "updateTodo", "deleteTodo"}
                    /\ \E t \in target : Foreign(t.list_id, caller)) =>
                      (res'.status # 200 /\ todos' = todos) ]_vars

\* C4: a request to a list or todo route without an Authorization header
\* is answered 401 'Unauthorized', next() is not called, no controller
\* runs and the store stays as it was.
C4_GateAbsentToken ==
    [][ (req'.op \in ListOps \cup TodoOps /\ ~req'.header.present) =>
          /\ res'.status = 401
          /\ res'.message = Msg("Unauthorized")
          /\ ~req'.next
          /\ req'.handler = "none"
          /\ store' = store ]_vars

C4_Witness ==
    /\ req.op = "deleteList" /\ ~req.header.present
    /\ \E l \in lists : l.id = req.id
    /\ res.status = 401

\* the token the gate is left with once 'Bearer ' is taken out of the header
Presented(header) == replace(header.value, Bearer)

Malformed(token)  == Len(token) # 1 \/ token[1].kind # "jwt"
Expired(token)    == now >= token[1].payload.exp
BadSignature(token) == token[1].sig # HMAC(token[1].payload, JWT_SECRET)

\* C5: a presented token that is malformed, expired or not signed with the
\* server secret is answered 401; next() is not called, no handler runs
\* and req.user is not set.
C5_GateInvalidToken ==
    (/\ req.op \in ListOps \cup TodoOps
     /\ req.header.present
     /\ Presented(req.header) # <<>>
     /\ \/ Malformed(Presented(req.header))
        \/ Expired(Presented(req.header))
        \/ BadSignature(Presented(req.header))) =>
        /\ res.status = 401
        /\ ~req.next
        /\ req.handler = "none"
        /\ req.user = NoPayload

C5_Witness ==
    /\ req.op \in ListOps /\ req.header.present
    /\ \E t \in issued :
          /\ req.header = BearerOf(t)
          /\ ~BadSignature(<<t>>)
          /\ now > t.payload.iat
          /\ Expired(<<t>>)
    /\ res.status = 401

\* C6: token lifetime, as claimed: under a configured secret and a numeric
\* JWT_TTL, an issued token is accepted at every time before issuance +
\* JWT_TTL seconds and rejected with 401 from then on.
C6_TokenLifetime ==
    \A t \in issued :
        (/\ req.op \in ListOps /\ req.header = BearerOf(t)
         /\ ~falsy(JWT_SECRET)
         /\ ~ToNumber(JWT_TTL).nan) =>
            IF now < t.payload.iat + ToNumber(JWT_TTL).n
            THEN req.next
            ELSE ~req.next /\ res.status = 401

\* C7: issuer and verifier share one secret, as claimed: under every env an
\* unexpired token that register or login issued is accepted by the gate.
C7_SharedSecret ==
    \A t \in issued :
        (/\ req.op \in ListOps /\ req.header = BearerOf(t)
         /\ now < t.payload.exp) => req.next

\* a register for this email has been answered 200
Registered(email) ==
    \E q \in Regs : reg[q].pc = "done" /\ reg[q].status = 200 /\ reg[q].email = email

\* C8: sequential duplicate registration.  A register that starts after a
\* register for the same email succeeded is answered 409 'Email is already
\* registered', adds no row, and the store holds one row with that email.
C8_DuplicateRegistration ==
    [][ \A p \in Regs :
          (reg[p].pc = "new" /\ reg'[p].pc # "new" /\ Registered(reg'[p].email)) =>
              /\ reg'[p].pc = "done"
              /\ reg'[p].status = 409
              /\ res'.status = 409
              /\ res'.message = Msg("Email is already registered")
              /\ users' = users
              /\ Cardinality({u \in users' : u.email = reg'[p].email}) = 1 ]_vars

C8_Witness ==
    \E p, q \in Regs :
        /\ reg[q].pc = "done" /\ reg[q].status = 200
        /\ reg[p].pc = "done" /\ reg[p].status = 409
        /\ reg[p].email = reg[q].email
        /\ req.op = "register" /\ res.status = 409

\* C9: concurrent duplicate registration, as claimed: under an env in which
\* tokens can be signed, of the completed registers for one email exactly
\* one was answered 200 and every other one 409, and no two rows carry it.
C9_ConcurrentRegistration ==
    \A email \in Emails :
        LET done == {p \in Regs : reg[p].pc = "done" /\ reg[p].email = email}
        IN  (done # {} /\ ~jwt_sign_throws(JWT_TTL)) =>
              /\ Cardinality({p \in done : reg[p].status = 200}) = 1
              /\ \A p \in done : reg[p].status \in {200, 409}
              /\ Cardinality({u \in users : u.email = email}) = 1

\* C10: login decides on the registered password alone, as claimed: after
\* a successful register(name, e, p), login(e, p') is answered 200 exactly
\* when p' = p, and 401 otherwise.
C10_LoginPassword ==
    \A q \in Regs :
        (/\ req.op = "login"
         /\ reg[q].pc = "done" /\ reg[q].status = 200
         /\ reg[q].email = req.body.email) =>
            IF req.body.password = reg[q].password
            THEN res.status = 200
            ELSE res.status = 401

\* the response is the one answer login has for a caller it does not let
\* in: status, message and envelope
InvalidLogin(r) ==
    /\ r.status = 401
    /\ r.success = FALSE
    /\ r.message = Msg("Invalid email or password")
    /\ r.error = "{}"
    /\ r.keys = {"success", "message", "error"}

C12_TokenIdentity ==
    [][ /\ \A t \in issued' :
              \E u \in users' : u.id = t.payload.id /\ u.email = t.payload.email
        /\ (req'.op \in {"register", "login"} /\ res'.status = 200) =>
              /\ res'.data.token \in issued'
              /\ res'.data.token.payload.email = req'.body.email
              /\ \E u \in users' : /\ u.id = res'.data.token.payload.id
                                    /\ u.email = req'.body.email
        /\ (req'.op = "register" /\ res'.status = 200) =>
              \E u \in users' \ users : /\ u.id = res'.data.token.payload.id
                                          /\ u.email = res'.data.token.payload.email ]_vars

C12_Witness ==
    /\ req.op = "register" /\ res.status = 200
    /\ Cardinality(users) = 2
    /\ res.data.token.payload.id = 2
    /\ \E u \in users : u.id = 2 /\ u.email = req.body.email

\* the token is one the gate has to accept: signed with the configured
\* secret and not expired
Valid(t) == ~falsy(JWT_SECRET) /\ ~BadSignature(<<t>>) /\ ~Expired(<<t>>)

\* C13: gate success path.  For a list request with a valid unexpired
\* token the gate sets req.user to the token's claims and calls next(), the
\* handler of the route runs, and what it reads, inserts, changes or
\* removes is selected by the token's id alone.
C13_GateSuccessPath ==
    [][ \A t \in issued :
          (req'.op \in ListOps /\ req'.header = BearerOf(t) /\ Valid(t)) =>
              LET uid == t.payload.id
                  own == {l \in lists : l.user_id = uid}
              IN  /\ req'.next
                  /\ req'.user = t.payload
                  /\ req'.handler = req'.op
                  /\ res'.status # 401
                  /\ req'.op = "getUserLists" => res'.data = own
                  /\ req'.op = "getListById" =>
                        IF \E l \in own : l.id = req'.id
                        THEN res'.status = 200 /\ res'.data \in own
                        ELSE res'.status = 404
                  /\ req'.op = "createList" =>
                        \E l \in lists' : /\ lists' \ lists = {l}
                                           /\ l.user_id = uid
                  /\ req'.op \in {"updateList", "deleteList"} =>
                        /\ \A l \in lists \ lists' : l \in own /\ l.id = req'.id
                        /\ \A l \in lists' \ lists : l.user_id = uid /\ l.id = req'.id ]_vars

C13_Witness ==
    /\ req.op = "getUserLists" /\ req.next
    /\ \E t \in issued : req.header = BearerOf(t) /\ req.user = t.payload
    /\ res.data # {}
    /\ \E l \in lists : l.user_id # req.user.id

\* C14: expiresAt, as claimed: the expiresAt a register or login returns
\* is the time of the response plus JWT_TTL seconds, and it is the expiry
\* carried by the token of the same response.
C14_ExpiresAt ==
    (req.op \in {"register", "login"} /\ res.status = 200) =>
        /\ ~res.data.expiresAt.nan
        /\ res.data.expiresAt.n = res.data.token.payload.iat + ToNumber(JWT_TTL).n
        /\ res.data.expiresAt.n = res.data.token.payload.exp

\* the error details the handlers pass on: the kind of failure, without
\* the values of the request or of the store
ErrorDetails ==
    {"{}", "ER_DUP_ENTRY", "expiresIn", "Bind parameters", "Illegal arguments", "TypeError",
     "jwt malformed", "jwt signature is required", "secret or public key must be provided",
     "please specify none in algorithms", "invalid signature", "jwt expired"}

\* C15: password confidentiality.  What is stored in users.password is the
\* bcrypt digest (salted, SaltRounds rounds) of the password the register
\* carried, and a response is made of a token with claims id, email, iat
\* and exp, an expiry date, list rows, todo rows, ids and names, a message
\* and the kind of an error: no password and no digest.
C15_PasswordConfidentiality ==
    /\ \A u \in users :
          /\ u.password.rounds = SaltRounds
          /\ u.password.salt \in Salts
          /\ \E q \in Regs : /\ reg[q].email = u.email
                              /\ u.password = bcrypt_digest(reg[q].password, u.password.salt,
                                                            SaltRounds)
    /\ res.status # 0 =>
          /\ res.message[2] \in {<<>>, JWT_TTL}
          /\ res.status # 200 => (res.data = {} /\ res.error \in ErrorDetails)
          /\ (res.status = 200 /\ req.op \in {"register", "login"}) =>
                /\ DOMAIN res.data = {"token", "expiresAt"}
                /\ DOMAIN res.data.token.payload = {"id", "email", "iat", "exp"}
                /\ DOMAIN res.data.expiresAt = {"nan", "n"}
          /\ (res.status = 200 /\ req.op = "getUserLists") => res.data \subseteq lists
          /\ (res.status = 200 /\ req.op = "getListById") => res.data \in lists
          /\ (res.status = 200 /\ req.op \in {"createList", "updateList"}) =>
                DOMAIN res.data = {"id", "name"}
          /\ (res.status = 200 /\ req.op = "getTodos") => res.data \subseteq todos
          /\ (res.status = 200 /\ req.op = "getTodoById") => res.data \in todos
          /\ (res.status = 200 /\ req.op \in {"createTodo", "updateTodo"}) =>
                DOMAIN res.data = {"id", "name", "listId", "completed"}
          /\ (res.status = 200 /\ req.op \in {"deleteList", "deleteTodo"}) =>
                res.data = "null"

C15_Witness ==
    /\ req.op = "login" /\ res.status = 200
    /\ \E u \in users : /\ u.email = req.body.email
                         /\ u.password = bcrypt_digest(req.body.password, u.password.salt,
                                                       SaltRounds)

\* the 404 of a list route: status, message and envelope
NotFound(r, op) ==
    /\ r.status = 404
    /\ r.success = FALSE
    /\ r.message = Msg(CASE op = "getListById" -> "List not found"
                         [] op = "updateList"  -> "List not found or update failed"
                         [] op = "deleteList"  -> "List not found or deletion failed")
    /\ r.data = {}
    /\ r.error = "{}"
    /\ r.keys = {"success", "message", "error"}

\* C16: not-found and not-owned are conflated.  getListById, updateList
\* and deleteList on an id the caller owns no list of get one and the same
\* 404 response, whether no list has that id or a list of another user
\* has it, and leave the lists as they were.
C16_NotFoundConflated ==
    [][ (/\ req'.op \in {"getListById", "updateList", "deleteList"}
         /\ req'.next
         /\ ~\E l \in lists : l.id = req'.id /\ l.user_id = req'.user.id) =>
            /\ NotFound(res', req'.op)
            /\ lists' = lists ]_vars

C16_Witness ==
    /\ req.op \in {"getListById", "updateList", "deleteList"} /\ req.next
    /\ ~\E l \in lists : l.id = req.id
    /\ \E l \in lists : l.user_id # req.user.id
    /\ NotFound(res, req.op)

\* the header is there and is not 'Bearer ' followed by a token
Garbled(header) ==
    /\ header.present
    /\ ~(Len(header.value) >= 2 /\ header.value[1] = Bearer)

\* the 401 of the gate for a request without a token
Unauthorized(r) ==
    /\ r.status = 401
    /\ r.success = FALSE
    /\ r.message = Msg("Unauthorized")
    /\ r.error = "{}"
    /\ r.keys = {"success", "message", "error"}

\* C17: garbled Authorization header, as claimed: a request whose header
\* is present and not of the form 'Bearer <token>' gets the response of a
\* request without a header, 401 'Unauthorized', and next() is not called.
C17_GarbledHeader ==
    (req.op \in ListOps \cup TodoOps /\ Garbled(req.header)) =>
        /\ Unauthorized(res)
        /\ ~req.next

\* C18: list listing is exact.  GET /lists of an authenticated user is
\* answered 200 with the stored lists of that user, and the stored lists
\* of a user are the ones the user created and did not delete, under the
\* name of the owner's last successful update: a create adds one new row
\* of the caller with the name given, an update answered 200 renames the
\* caller's row of that id, a delete answered 200 removes it, and no other
\* step touches the lists.
C18_ListingExact ==
    [][ LET uid == req'.user.id
            hit == {l \in lists : l.id = req'.id /\ l.user_id = uid}
            ok  == req'.next /\ res'.status = 200
        IN  /\ (req'.op = "getUserLists" /\ req'.next) =>
                  /\ res'.status = 200
                  /\ res'.data = {l \in lists' : l.user_id = uid}
            /\ IF req'.op = "createList" /\ req'.next
               THEN /\ res'.status = 200
                    /\ res'.data.id \notin {l.id : l \in lists}
                    /\ lists' = lists \cup {[id |-> res'.data.id, name |-> req'.body.name,
                                              user_id |-> uid]}
               ELSE IF req'.op = "updateList" /\ ok
               THEN /\ hit # {}
                    /\ lists' = (lists \ hit) \cup {[l EXCEPT !.name = req'.body.name] : l \in hit}
               ELSE IF req'.op = "deleteList" /\ ok
               THEN /\ hit # {}
                    /\ lists' = lists \ hit
               ELSE lists' = lists ]_vars

C18_Witness ==
    /\ req.op = "getUserLists" /\ req.next /\ res.status = 200
    /\ Cardinality(res.data) = 1
    /\ \E l \in res.data : l.user_id = req.user.id /\ l.name = "n2"
    /\ \E l \in lists : l.user_id # req.user.id

C20_NoUnhandledFault ==
    /\ req.op \in {"register", "login"} => res.status \in {200, 401, 409, 500}
    /\ (req.op \in ListOps \cup TodoOps /\ ~req.next) => res.status = 401

TokenId(header) == header.value[2].payload.id

\* C22: a new list is owned by the authenticated caller.  A createList that
\* passed the gate stores one row whose user_id is the id in the token of
\* the request, and a list is changed or removed only by an updateList or
\* deleteList that carries a token with the list's user_id.
C22_ListOwnership ==
    [][ /\ (req'.op = "createList" /\ req'.next) =>
              /\ req'.header \in TokenHeaders
              /\ lists' \ lists # {}
              /\ \A l \in lists' \ lists : l.user_id = TokenId(req'.header)
        /\ \A l \in lists \ lists' :
              /\ req'.op \in {"updateList", "deleteList"}
              /\ req'.header \in TokenHeaders
              /\ TokenId(req'.header) = l.user_id ]_vars

C22_Witness ==
    /\ req.op = "createList" /\ req.next
    /\ req.header \in TokenHeaders
    /\ \E l \in lists : l.id = res.data.id /\ l.user_id = TokenId(req.header)
    /\ \E l \in lists : l.user_id # TokenId(req.header)

\* C23: users are append-only, as claimed: no step removes or rewrites a
\* users row, and the users change only in a register that is answered
\* 200, by one added row.
C23_UsersAppendOnly ==
    [][ /\ \A u \in users : u \in users'
        /\ users' # users =>
              /\ req'.op = "register"
              /\ res'.status = 200
              /\ Cardinality(users' \ users) = 1 ]_vars

\* C27: register is all-or-nothing, as claimed: a register answered with a
\* status other than 200 leaves the users as they were before its INSERT.
C27_RegisterAllOrNothing ==
    [][ (req'.op = "register" /\ res'.status \notin {0, 200}) => users' = users ]_vars

\* C24: no revocation and no store consultation in the gate.  Whatever
\* registers, logins and list and todo changes came before, a request with
\* an issued token passes the gate exactly when the token carries the
\* signature of the configured secret and the clock is before its expiry.
C24_NoRevocation ==
    \A t \in issued :
        (req.op \in ListOps \cup TodoOps /\ req.header = BearerOf(t)) =>
            /\ req.next <=> Valid(t)
            /\ req.next => req.user = t.payload

C24_Witness ==
    /\ req.op \in ListOps \cup TodoOps /\ req.next
    /\ \E t \in issued :
          /\ req.header = BearerOf(t)
          /\ now > t.payload.iat
          /\ \E t2 \in issued : t2.payload.iat > t.payload.iat
    /\ lists # {} /\ todos # {}

\* C25: only the Bearer form is accepted, as claimed: a request passes the
\* gate only if its Authorization header is 'Bearer ' followed by a token
\* and nothing else.
C25_OnlyBearerForm ==
    (req.op \in ListOps \cup TodoOps /\ req.next) =>
        /\ Len(req.header.value) = 2
        /\ req.header.value[1] = Bearer
        /\ req.header.value[2].kind = "jwt"

\* C26: a fresh token per login, as claimed: a successful login returns a
\* token string that no earlier register or login returned, and the token
\* carries the id of the user's row.
C26_FreshToken ==
    [][ (req'.op = "login" /\ res'.status = 200) =>
            /\ res'.data.token \notin issued
            /\ \E u \in users : /\ u.email = req'.body.email
                                /\ res'.data.token.payload.id = u.id ]_vars

\* C28: referential integrity of todos, as claimed: every stored todo's
\* list_id is the id of a list that currently exists.
C28_TodoHasList ==
    \A t \in todos : \E l \in lists : l.id = t.list_id

\* C29: list ownership is immutable.  No step changes the user_id of a list
\* that exists before and after it, a list id appears only in a createList,
\* and an updateList keeps every list, changing nothing but the name of
\* the list it addresses.
C29_OwnerImmutable ==
    [][ /\ \A l \in lists, m \in lists' : m.id = l.id => m.user_id = l.user_id
        /\ \A m \in lists' : (\A l \in lists : l.id # m.id) => req'.op = "createList"
        /\ req'.op = "updateList" =>
              /\ \A l \in lists : \E m \in lists' : m.id = l.id
              /\ \A l \in lists : l.id # req'.id => l \in lists'
              /\ Cardinality(lists') = Cardinality(lists) ]_vars

C29_Witness ==
    /\ req.op = "updateList" /\ res.status = 200
    /\ req.body.name = "n2"
    /\ \E l \in lists : /\ l.id = req.id /\ l.name = "n2"
                         /\ l.user_id = req.user.id
    /\ \E m \in lists : m.user_id # req.user.id /\ m.name = "n1"

\* C30: exactly one outcome per request, as claimed: every request is
\* answered by a response, and on the gated routes either the gate answered
\* 401 without calling next(), or it called next() and the controller
\* answered.
C30_OneOutcome ==
    req.op # "none" =>
        /\ res.status # 0
        /\ req.op \in ListOps \cup TodoOps =>
              /\ ~req.next => (res.status = 401 /\ req.handler = "none")
              /\ req.next => (res.status # 401 /\ req.handler = req.op)

====
